---- MODULE Spec2Model ----
(***************************************************************************)
(* Model of scripts/extract_kernel_symbols.py: the symbol lister (nm),     *)
(* the function-symbol filter and its positional reordering, the binary    *)
(* encoding of the table into <stem>.map, the size guard of main() and the *)
(* four objcopy calls of generate_binary_files().                          *)
(*                                                                         *)
(* Text is modelled as sequences of Unicode code points, files and the     *)
(* output of nm as sequences of bytes (0..255).                            *)
(***************************************************************************)
EXTENDS Integers, Sequences, FiniteSets, TLC

\* ------------------------------------------------------------------ bounds
\* Largest number of lines of nm in a whole run of the script.
MaxRunLines == 3
\* Largest number of lines of nm when only the symbol table is built.
MaxLines == 4

\* ------------------------------------------------------- text and bytes
NUL == 0
NEWLINE == 10
SPACE == 32

\* Characters str.strip() and str.split() treat as whitespace.
Whitespace ==
    {9, 10, 11, 12, 13, 28, 29, 30, 31, 32, 133, 160, 5760, 8239, 8287, 12288}
    \cup (8192..8202) \cup {8232, 8233}

\* The indices of s, in order.
Indices(s) == [i \in 1..Len(s) |-> i]

\* Concatenation of a sequence of sequences (halving keeps the nesting shallow).
RECURSIVE Concat(_)
Concat(ss) ==
    IF ss = <<>> THEN <<>>
    ELSE IF Len(ss) = 1 THEN ss[1]
    ELSE LET h == Len(ss) \div 2
         IN  Concat(SubSeq(ss, 1, h)) \o Concat(SubSeq(ss, h + 1, Len(ss)))

\* str.encode("utf-8") of one code point; <<-1>> marks a surrogate, where
\* Python raises UnicodeEncodeError.
Utf8Char(c) ==
    IF c >= 55296 /\ c <= 57343 THEN <<-1>>
    ELSE IF c < 128 THEN <<c>>
    ELSE IF c < 2048 THEN <<192 + (c \div 64), 128 + (c % 64)>>
    ELSE IF c < 65536
         THEN <<224 + (c \div 4096), 128 + ((c \div 64) % 64), 128 + (c % 64)>>
         ELSE <<240 + (c \div 262144), 128 + ((c \div 4096) % 64),
                128 + ((c \div 64) % 64), 128 + (c % 64)>>

\* str.encode("utf-8")
Utf8Encode(s) == Concat([i \in 1..Len(s) |-> Utf8Char(s[i])])

\* Number of bytes of the UTF-8 sequence a lead byte announces; 0 for a byte
\* that cannot start a sequence (a continuation byte, C0, C1, F5..FF).
Utf8Width(b) ==
    IF b < 128 THEN 1
    ELSE IF b >= 194 /\ b <= 223 THEN 2
    ELSE IF b >= 224 /\ b <= 239 THEN 3
    ELSE IF b >= 240 /\ b <= 244 THEN 4
    ELSE 0

\* A continuation byte, 10xxxxxx.
Utf8Cont(b) == b >= 128 /\ b < 192

\* bytes.decode(): one code point per lead byte; -1 marks a sequence that is
\* not well formed (a wrong lead byte, a wrong number of continuation bytes,
\* an overlong form, a surrogate, a value above U+10FFFF), where Python
\* raises UnicodeDecodeError.
Utf8Decode(b) ==
    LET IsLead(i) == ~Utf8Cont(b[i])
        leads == SelectSeq(Indices(b), IsLead)
        next(k) == IF k < Len(leads) THEN leads[k + 1] ELSE Len(b) + 1
        char(k) ==
            LET i == leads[k]
                w == Utf8Width(b[i])
            IN  IF w = 0 \/ next(k) # i + w THEN -1
                ELSE IF b[i] = 224 /\ b[i + 1] < 160 THEN -1
                ELSE IF b[i] = 237 /\ b[i + 1] > 159 THEN -1
                ELSE IF b[i] = 240 /\ b[i + 1] < 144 THEN -1
                ELSE IF b[i] = 244 /\ b[i + 1] > 143 THEN -1
                ELSE CASE w = 1 -> b[i]
                       [] w = 2 -> (b[i] - 192) * 64 + (b[i + 1] - 128)
                       [] w = 3 -> (b[i] - 224) * 4096 + (b[i + 1] - 128) * 64
                                   + (b[i + 2] - 128)
                       [] OTHER -> (b[i] - 240) * 262144 + (b[i + 1] - 128) * 4096
                                   + (b[i + 2] - 128) * 64 + (b[i + 3] - 128)
    IN  IF b # <<>> /\ Utf8Cont(b[1]) THEN <<-1>>
        ELSE [k \in 1..Len(leads) |-> char(k)]

\* symbols.decode() raises UnicodeDecodeError.
DecodeRaises(text) == \E i \in 1..Len(text) : text[i] = -1

\* str.strip()
Strip(s) ==
    LET NotWs(i) == s[i] \notin Whitespace
        kept == SelectSeq(Indices(s), NotWs)
    IN  IF kept = <<>> THEN <<>> ELSE SubSeq(s, kept[1], kept[Len(kept)])

\* str.split(sep) for a one-character separator: the pieces between separators.
SplitAt(s, sep) ==
    LET IsSep(i) == s[i] = sep
        seps == SelectSeq(Indices(s), IsSep)
        from(k) == IF k = 1 THEN 1 ELSE seps[k - 1] + 1
        to(k) == IF k > Len(seps) THEN Len(s) ELSE seps[k] - 1
    IN  [k \in 1..(Len(seps) + 1) |-> SubSeq(s, from(k), to(k))]

\* str.split() without argument: runs of whitespace separate, no empty token.
Split(s) ==
    LET Ws(i) == i < 1 \/ i > Len(s) \/ s[i] \in Whitespace
        IsStart(i) == ~Ws(i) /\ Ws(i - 1)
        IsEnd(i) == ~Ws(i) /\ Ws(i + 1)
        starts == SelectSeq(Indices(s), IsStart)
        ends == SelectSeq(Indices(s), IsEnd)
    IN  [k \in 1..Len(starts) |-> SubSeq(s, starts[k], ends[k])]

\* Value of one hexadecimal digit character.
HexDigit(c) == IF c >= 48 /\ c <= 57 THEN c - 48
               ELSE IF c >= 97 /\ c <= 102 THEN c - 87
               ELSE c - 55

\* int(s, base=16)
RECURSIVE ParseHex(_)
ParseHex(s) ==
    IF s = <<>> THEN 0 ELSE 16 * ParseHex(SubSeq(s, 1, Len(s) - 1)) + HexDigit(s[Len(s)])

\* encode(n): n.to_bytes(4, "little")
encode(n) == <<n % 256, (n \div 256) % 256, (n \div 65536) % 256, (n \div 16777216) % 256>>

\* ------------------------------------------------------- program constants
\* "_kernel_code_start"
KernelCodeStart ==
    <<95, 107, 101, 114, 110, 101, 108, 95, 99, 111, 100, 101, 95, 115, 116, 97, 114, 116>>
\* "_kernel_code_end"
KernelCodeEnd ==
    <<95, 107, 101, 114, 110, 101, 108, 95, 99, 111, 100, 101, 95, 101, 110, 100>>
Sentinels == {KernelCodeStart, KernelCodeEnd}
\* "t", "T"
TextTypes == {<<116>>, <<84>>}

\* ------------------------------------------------------------- the inputs
\* Type codes nm prints: "T", "t", "D".
Types == {<<84>>, <<116>>, <<68>>}
\* Symbol names: the two sentinels and "fé" (a name with a two-byte character).
Names == {KernelCodeStart, KernelCodeEnd, <<102, 233>>}
\* A symbol name that is not UTF-8: "f" and the bytes C0 80, a byte b that is
\* not text written as the code point U+DC00 + b.
NotUtf8Name == <<102, 56512, 56448>>

\* The character of one hexadecimal digit, in lower case.
HexChar(d) == IF d < 10 THEN 48 + d ELSE 87 + d

\* nm prints the address of a 32-bit binary as eight hexadecimal digits.
Hex8(n) ==
    LET pow16(k) == CASE k = 0 -> 1 [] k = 1 -> 16 [] k = 2 -> 256 [] k = 3 -> 4096
                      [] k = 4 -> 65536 [] k = 5 -> 1048576 [] k = 6 -> 16777216
                      [] OTHER -> 268435456
    IN  [i \in 1..8 |-> HexChar((n \div pow16(8 - i)) % 16)]

\* Address of the i-th symbol of the kernel: 0x00100000, then 0xa2c4 apart.
AddressOf(i) == 1048576 + (i - 1) * 41668

\* The symbols of a kernel: a type code and a name each, in address order;
\* and one kernel whose only symbol has a name that is not UTF-8.
Kernels(n) ==
    UNION {[1..k -> Types \X Names] : k \in 0..n} \cup {<<<<<<84>>, NotUtf8Name>>>>}

\* The listing nm -n prints for a kernel: lines "address type name", sorted
\* by address.
Listing(symtab) ==
    [i \in 1..Len(symtab) |-> <<Hex8(AddressOf(i)), symtab[i][1], symtab[i][2]>>]

\* The bytes nm writes for one character of a listing: the byte itself for a
\* byte that is not text, the UTF-8 sequence of the character otherwise.
NmChar(c) == IF c >= 56448 /\ c <= 56575 THEN <<c - 56320>> ELSE Utf8Char(c)

\* What nm writes to its standard output for a listing.
NmOutput(l) ==
    LET text == Concat([i \in 1..Len(l) |->
            l[i][1] \o <<SPACE>> \o l[i][2] \o <<SPACE>> \o l[i][3] \o <<NEWLINE>>])
    IN  Concat([i \in 1..Len(text) |-> NmChar(text[i])])

\* Command lines: no argument, -h, --he, the kernel alone, the kernel and -h,
\* a section size that is no number, the size 16 written " 1_6" after "--",
\* the sizes 43 and 4096, an extra word, and "--" for the section size.
Argvs ==
    LET kernel_path == <<107, 101, 114, 110, 101, 108>>
        help == <<45, 104>>
        abc == <<97, 98, 99>>
    IN  {<<>>, <<help>>, <<<<45, 45, 104, 101>>>>, <<kernel_path>>,
         <<kernel_path, help>>, <<kernel_path, abc>>,
         <<kernel_path, <<45, 45>>, <<32, 49, 95, 54>>>>,
         <<kernel_path, <<52, 51>>>>, <<kernel_path, <<52, 48, 57, 54>>>>,
         <<kernel_path, <<49, 54>>, abc>>, <<kernel_path, <<45, 45>>, <<45, 45>>>>}

\* A .map file left by an earlier run.
StaleMap == [exists |-> TRUE, data |-> <<255>>]
NoMap == [exists |-> FALSE, data |-> <<>>]

\* ------------------------------------------------------------------ state
VARIABLES
    pc,               \* position of the run: args, main, extract, guard,
                      \* objcopy1..4, exit
    argv,             \* sys.argv[1:], each word a sequence of code points
    kernel_exists,    \* args.kernel.exists()
    section_size,     \* args.section_size: an integer, the list [], or not set
    nm_returncode,    \* exit status of nm (-1: not run)
    nm_listing,       \* the symbols of the kernel, as nm lists them
    filtered,         \* function_symbols after the list comprehension
    function_symbols, \* function_symbols after the pop and the insert
    map_file,         \* <stem>.map
    size,             \* os.stat(symbol_table).st_size (-1: not read)
    calls,            \* the objcopy calls made so far, in order
    sym_file,         \* <stem>.sym: "absent", "partial" (left by an objcopy
                      \* that failed) or "written"
    kernel,           \* what objcopy has done to the kernel binary
    exit_code         \* exit status of the run (-1: running)

vars == <<pc, argv, kernel_exists, section_size, nm_returncode, nm_listing, filtered,
          function_symbols, map_file, size, calls, sym_file, kernel, exit_code>>

Untouched == [stripped |-> FALSE, patched |-> FALSE, linked |-> FALSE]

\* ------------------------------------------------- extract_symbol_table
\* The lines of the decoded output of nm: .strip().split("\n")
SymbolLines(text) == SplitAt(Strip(text), NEWLINE)

\* A variant of the condition that misses the local text symbols ("t").
IsFunctionSymbolGlobalOnly(tokens) == tokens[2] = <<84>> \/ tokens[3] \in Sentinels

\* The condition of the list comprehension, on the tokens of one line.
IsFunctionSymbol(tokens) == tokens[2] \in TextTypes \/ tokens[3] \in Sentinels

\* symbol.split()[1] or symbol.split()[2] raises IndexError on a short line.
FilterRaises(lines) ==
    \E i \in 1..Len(lines) :
        LET tokens == Split(lines[i])
        IN  Len(tokens) < 2 \/ (tokens[2] \notin TextTypes /\ Len(tokens) < 3)

\* symbol.split()[::2]
EveryOther(tokens) == [i \in 1..((Len(tokens) + 1) \div 2) |-> tokens[2 * i - 1]]

\* The list comprehension: keep the selected lines, reduced to address and name.
FunctionSymbols(lines) ==
    LET tokens == [i \in 1..Len(lines) |-> Split(lines[i])]
        kept == SelectSeq(tokens, IsFunctionSymbol)
    IN  [i \in 1..Len(kept) |-> EveryOther(kept[i])]

\* A variant of insert that counts positions from one.
InsertOneBased(list, i, x) ==
    LET k == IF i - 1 < Len(list) THEN i - 1 ELSE Len(list)
    IN  SubSeq(list, 1, k) \o <<x>> \o SubSeq(list, k + 1, Len(list))

\* list.insert(i, x) for i >= 0: an index past the end appends.
Insert(list, i, x) ==
    LET k == IF i < Len(list) THEN i ELSE Len(list)
    IN  SubSeq(list, 1, k) \o <<x>> \o SubSeq(list, k + 1, Len(list))

\* One of the two pop(0) raises IndexError on an empty list.
ReorderRaises(fs) == Len(fs) < 2

\* A variant of the reordering that pops twice and never reinserts.
ReorderNoReinsert(fs) == Tail(Tail(fs))

\* function_symbols.pop(0); function_symbols.insert(1, function_symbols.pop(0))
Reorder(fs) ==
    LET dropped == Tail(fs)
        moved == Head(dropped)
    IN  Insert(Tail(dropped), 1, moved)

\* The three writes of one symbol.
EncodeSymbol(symbol) ==
    LET address == ParseHex(symbol[1])
        name == symbol[2] \o <<NUL>>
    IN  encode(Len(name) + 2 * 4) \o encode(address) \o Utf8Encode(name)

\* The bytes written to the map file.
EncodeTable(fs) ==
    encode(Len(fs)) \o Concat([i \in 1..Len(fs) |-> EncodeSymbol(fs[i])])

Exit(code) == pc' = "exit" /\ exit_code' = code

\* A variant that opens the map file before the error is detected.
ExtractionFailsAfterOpen ==
    /\ Exit(1)
    /\ map_file' = [exists |-> TRUE, data |-> <<>>]
    /\ UNCHANGED <<filtered, function_symbols>>

\* A fatal error of extract_symbol_table before the map file is opened.
ExtractionFails ==
    /\ Exit(1)
    /\ UNCHANGED <<filtered, function_symbols, map_file>>

\* ------------------------------------------------------- parse_arguments
\* The zero digits of the decimal digits of Unicode (category Nd): each is
\* followed by the digits one to nine.
DecimalZeros ==
    {48, 1632, 1776, 1984, 2406, 2534, 2662, 2790, 2918, 3046, 3174, 3302, 3430,
     3558, 3664, 3792, 3872, 4160, 4240, 6112, 6160, 6470, 6608, 6784, 6800,
     6992, 7088, 7232, 7248, 42528, 43216, 43264, 43472, 43504, 43600, 44016,
     65296, 66720, 68912, 69734, 69872, 69942, 70096, 70384, 70736, 70864, 71248,
     71360, 71472, 71904, 72016, 72784, 73040, 73120, 92768, 92864, 93008,
     120782, 120792, 120802, 120812, 120822, 123200, 123632, 125264, 130032}

\* A decimal digit, as int and the \d of re take it.
IsDigit(c) == \E zero \in DecimalZeros : c >= zero /\ c <= zero + 9

\* The value of a decimal digit.
DigitValue(c) == c - (CHOOSE zero \in DecimalZeros : c >= zero /\ c <= zero + 9)

\* int refuses a number of more than 4300 digits.
MaxStrDigits == 4300

\* White space int skips around a number: that of str.strip() without the
\* separators U+001C..U+001F.
IntSpace(c) == c \in Whitespace \ {28, 29, 30, 31}

\* The word without the white space around it.
IntBody(w) ==
    LET NotSpace(i) == ~IntSpace(w[i])
        kept == SelectSeq(Indices(w), NotSpace)
    IN  IF kept = <<>> THEN <<>> ELSE SubSeq(w, kept[1], kept[Len(kept)])

\* And without its sign.
IntDigits(w) ==
    LET body == IntBody(w)
    IN  IF body # <<>> /\ body[1] \in {43, 45} THEN Tail(body) ELSE body

\* int(word) accepts the word: white space, an optional sign, decimal digits
\* with single underscores between them, white space.
IsInt(w) ==
    LET digits == IntDigits(w)
    IN  /\ digits # <<>>
        /\ \A i \in 1..Len(digits) :
            \/ IsDigit(digits[i])
            \/ /\ digits[i] = 95 /\ i > 1 /\ i < Len(digits)
               /\ IsDigit(digits[i - 1]) /\ IsDigit(digits[i + 1])
        /\ Len(SelectSeq(digits, IsDigit)) <= MaxStrDigits

\* The number a sequence of decimal digits writes.
RECURSIVE DecimalValue(_)
DecimalValue(digits) ==
    IF digits = <<>> THEN 0
    ELSE 10 * DecimalValue(SubSeq(digits, 1, Len(digits) - 1))
         + DigitValue(digits[Len(digits)])

\* int(word) of a word that int accepts.
ParseDecimal(w) ==
    LET value == DecimalValue(SelectSeq(IntDigits(w), IsDigit))
    IN  IF IntBody(w)[1] = 45 THEN 0 - value ELSE value

\* "--", "-h", "--help"
DoubleDash == <<45, 45>>
ShortHelp == <<45, 104>>
LongHelp == <<45, 45, 104, 101, 108, 112>>

\* s.startswith(p)
IsPrefix(p, s) == Len(p) <= Len(s) /\ SubSeq(s, 1, Len(p)) = p

\* The position of the first "=" of a word, past its end when it has none.
EqualsAt(w) ==
    LET IsEquals(i) == w[i] = 61
        found == SelectSeq(Indices(w), IsEquals)
    IN  IF found = <<>> THEN Len(w) + 1 ELSE found[1]

\* The tail of "-h" is read as further one-letter options: it is accepted
\* when it is not empty and every letter of it is "h".
OnlyHelp(tail) == tail # <<>> /\ \A i \in 1..Len(tail) : tail[i] = 104

\* The word looks like a negative number: re.match of '^-\d+$|^-\d*\.\d+$',
\* where $ also matches before a newline that ends the word.
NegativeNumber(w) ==
    LET Matches(x) ==
            /\ Len(x) >= 2 /\ x[1] = 45
            /\ \/ \A i \in 2..Len(x) : IsDigit(x[i])
               \/ \E dot \in 2..(Len(x) - 1) :
                    /\ x[dot] = 46
                    /\ \A i \in 2..Len(x) : i # dot => IsDigit(x[i])
    IN  \/ Matches(w)
        \/ w # <<>> /\ w[Len(w)] = NEWLINE /\ Matches(SubSeq(w, 1, Len(w) - 1))

\* _parse_optional and consume_optional on one word: "positional", "help"
\* (-h, --help, a prefix of --help, -hh..), "error" (a help option given a
\* value or followed by another letter) or "unknown" (any other option).
OptionKind(w) ==
    IF w = <<>> \/ w[1] # 45 THEN "positional"
    ELSE IF w = ShortHelp \/ w = LongHelp THEN "help"
    ELSE IF Len(w) = 1 THEN "positional"
    ELSE LET has_value == EqualsAt(w) <= Len(w)
             name == SubSeq(w, 1, EqualsAt(w) - 1)
             value == SubSeq(w, EqualsAt(w) + 1, Len(w))
         IN  IF has_value /\ name = LongHelp THEN "error"
             ELSE IF has_value /\ name = ShortHelp
                 THEN IF OnlyHelp(value) THEN "help" ELSE "error"
             ELSE IF w[2] = 45 /\ IsPrefix(name, LongHelp)
                 THEN IF has_value THEN "error" ELSE "help"
             ELSE IF w[2] # 45 /\ IsPrefix(ShortHelp, w)
                 THEN IF OnlyHelp(SubSeq(w, 3, Len(w))) THEN "help" ELSE "error"
             ELSE IF NegativeNumber(w) \/ (\E i \in 1..Len(w) : w[i] = SPACE)
                 THEN "positional"
             ELSE "unknown"

\* argparse takes the word for an option.
IsOption(w) == OptionKind(w) # "positional"

\* Values of args.section_size: an integer, the list [], not set.
IntValue(n) == [type |-> "int", value |-> n]
EmptyList == [type |-> "list", value |-> 0]
NotSet == [type |-> "none", value |-> 0]

\* parser.parse_args(): argparse reads the words from the left. The first
\* "--" ends the options and every word after it is positional. The second
\* positional word is converted with int as it is read, but a "--" in that
\* place gives the list [] without conversion. A help option prints the help
\* and a faulty one is an error where it stands; at the end missing words,
\* extra words and unknown options are errors. status is "parsed", "help"
\* (SystemExit 0) or "error" (SystemExit 2).
ParseArgs(words) ==
    LET IsMarker(i) == words[i] = DoubleDash
        markers == SelectSeq(Indices(words), IsMarker)
        marker == IF markers = <<>> THEN Len(words) + 1 ELSE markers[1]
        Kind(i) == IF i > marker THEN "positional"
                   ELSE IF i = marker THEN "marker"
                   ELSE OptionKind(words[i])
        Positional(i) == Kind(i) = "positional"
        Stops(i) == Kind(i) \in {"help", "error"}
        positionals == SelectSeq(Indices(words), Positional)
        stops == SelectSeq(Indices(words), Stops)
        is_list == Len(positionals) >= 2 /\ words[positionals[2]] = DoubleDash
        bad_size == /\ Len(positionals) >= 2
                    /\ ~is_list
                    /\ ~IsInt(words[positionals[2]])
    IN  IF bad_size /\ (stops = <<>> \/ positionals[2] < stops[1])
            THEN [status |-> "error", section_size |-> NotSet]
        ELSE IF stops # <<>>
            THEN [status |-> Kind(stops[1]), section_size |-> NotSet]
        ELSE IF \/ Len(positionals) # 2
                \/ \E i \in 1..Len(words) : Kind(i) = "unknown"
            THEN [status |-> "error", section_size |-> NotSet]
        ELSE [status |-> "parsed",
              section_size |-> IF is_list THEN EmptyList
                               ELSE IntValue(ParseDecimal(words[positionals[2]]))]

\* main: args = parse_arguments()
ParseArguments ==
    /\ pc = "args"
    /\ LET args == ParseArgs(argv)
       IN  CASE args.status = "parsed" ->
                    /\ section_size' = args.section_size
                    /\ pc' = "main" /\ exit_code' = exit_code
             [] args.status = "help" -> section_size' = section_size /\ Exit(0)
             [] OTHER -> section_size' = section_size /\ Exit(2)
    /\ UNCHANGED <<argv, kernel_exists, nm_returncode, nm_listing, filtered,
                   function_symbols, map_file, size, calls, sym_file, kernel>>

\* main: the test that the kernel exists.
CheckKernel ==
    /\ pc = "main"
    /\ IF kernel_exists THEN pc' = "extract" /\ exit_code' = exit_code ELSE Exit(1)
    /\ UNCHANGED <<argv, kernel_exists, section_size, nm_returncode, nm_listing, filtered,
                   function_symbols, map_file, size, calls, sym_file, kernel>>

\* extract_symbol_table: nm, the filter, the reordering and the map file,
\* for a kernel of at most n symbols.
ExtractFrom(n) ==
    /\ pc = "extract"
    /\ \E rc \in {0, 1} :
        /\ nm_returncode' = rc
        /\ IF rc # 0
           THEN \* check_output raises CalledProcessError
                /\ ExtractionFails
                /\ UNCHANGED nm_listing
           ELSE \E symtab \in Kernels(n) :
                \E listing \in {Listing(symtab)} :
                \E symbols \in {NmOutput(listing)} :
                \E text \in {Utf8Decode(symbols)} :
                \E lines \in {IF DecodeRaises(text) THEN <<>> ELSE SymbolLines(text)} :
                \E raised \in {FilterRaises(lines)} :
                \E fs \in {IF raised THEN <<>> ELSE FunctionSymbols(lines)} :
                    /\ nm_listing' = listing
                    /\ IF symbols = <<>> \/ DecodeRaises(text) \/ raised
                       THEN ExtractionFails
                       ELSE IF ReorderRaises(fs)
                       THEN /\ Exit(1)
                            /\ filtered' = fs
                            /\ UNCHANGED <<function_symbols, map_file>>
                       ELSE /\ filtered' = fs
                            /\ function_symbols' = Reorder(fs)
                            /\ map_file' = [exists |-> TRUE,
                                            data |-> EncodeTable(function_symbols')]
                            /\ pc' = "guard"
                            /\ exit_code' = exit_code
    /\ UNCHANGED <<argv, kernel_exists, section_size, size, calls, sym_file, kernel>>

ExtractSymbolTable == ExtractFrom(MaxRunLines)

\* A variant of the test that also rejects a table filling the section.
TooBigOffByOne(sz, budget) == sz >= budget

\* The test of the size guard.
TooBig(sz, budget) == sz > budget

\* main: the size of the map file against section_size.
SizeGuard ==
    /\ pc = "guard"
    /\ size' = Len(map_file.data)
    /\ IF section_size.type # "int"
       THEN \* TypeError: int > list
            Exit(1)
       ELSE IF TooBig(size', section_size.value) THEN Exit(1)
       ELSE pc' = "objcopy1" /\ exit_code' = exit_code
    /\ UNCHANGED <<argv, kernel_exists, section_size, nm_returncode, nm_listing, filtered,
                   function_symbols, map_file, calls, sym_file, kernel>>

\* ------------------------------------------------- generate_binary_files
\* objcopy --only-keep-debug kernel kernel.sym
OnlyKeepDebug ==
    /\ pc = "objcopy1"
    /\ calls' = Append(calls, "only-keep-debug")
    /\ \E ok \in BOOLEAN :
        IF ok THEN sym_file' = "written" /\ pc' = "objcopy2" /\ exit_code' = exit_code
              ELSE \* objcopy may have died while it wrote the file
                   sym_file' \in {sym_file, "partial"} /\ Exit(1)
    /\ UNCHANGED <<argv, kernel_exists, section_size, nm_returncode, nm_listing, filtered,
                   function_symbols, map_file, size, kernel>>

\* A variant of the second call that ignores the status of objcopy.
StripDebugUnchecked ==
    /\ pc = "objcopy2"
    /\ calls' = Append(calls, "strip-debug")
    /\ \E ok \in BOOLEAN :
        /\ kernel' = IF ok THEN [kernel EXCEPT !.stripped = TRUE] ELSE kernel
        /\ pc' = "objcopy3" /\ exit_code' = exit_code
    /\ UNCHANGED <<argv, kernel_exists, section_size, nm_returncode, nm_listing, filtered,
                   function_symbols, map_file, size, sym_file>>

\* objcopy --strip-debug kernel
StripDebug ==
    /\ pc = "objcopy2"
    /\ calls' = Append(calls, "strip-debug")
    /\ \E ok \in BOOLEAN :
        IF ok THEN kernel' = [kernel EXCEPT !.stripped = TRUE]
                   /\ pc' = "objcopy3" /\ exit_code' = exit_code
              ELSE kernel' = kernel /\ Exit(1)
    /\ UNCHANGED <<argv, kernel_exists, section_size, nm_returncode, nm_listing, filtered,
                   function_symbols, map_file, size, sym_file>>

\* objcopy --update-section .kernel_symbols=<map file> kernel
UpdateSection ==
    /\ pc = "objcopy3"
    /\ calls' = Append(calls, "update-section")
    /\ \E ok \in BOOLEAN :
        IF ok THEN kernel' = [kernel EXCEPT !.patched = TRUE]
                   /\ pc' = "objcopy4" /\ exit_code' = exit_code
              ELSE kernel' = kernel /\ Exit(1)
    /\ UNCHANGED <<argv, kernel_exists, section_size, nm_returncode, nm_listing, filtered,
                   function_symbols, map_file, size, sym_file>>

\* A variant of the last call that ignores the status of objcopy.
AddGnuDebuglinkUnchecked ==
    /\ pc = "objcopy4"
    /\ calls' = Append(calls, "add-gnu-debuglink")
    /\ \E ok \in BOOLEAN :
        /\ kernel' = IF ok THEN [kernel EXCEPT !.linked = TRUE] ELSE kernel
        /\ Exit(0)
    /\ UNCHANGED <<argv, kernel_exists, section_size, nm_returncode, nm_listing, filtered,
                   function_symbols, map_file, size, sym_file>>

\* objcopy --add-gnu-debuglink=kernel.sym kernel, then the return of main.
AddGnuDebuglink ==
    /\ pc = "objcopy4"
    /\ calls' = Append(calls, "add-gnu-debuglink")
    /\ \E ok \in BOOLEAN :
        IF ok THEN kernel' = [kernel EXCEPT !.linked = TRUE] /\ Exit(0)
              ELSE kernel' = kernel /\ Exit(1)
    /\ UNCHANGED <<argv, kernel_exists, section_size, nm_returncode, nm_listing, filtered,
                   function_symbols, map_file, size, sym_file>>

\* ---------------------------------------------------------- specification
Init ==
    /\ pc = "args"
    /\ argv \in Argvs
    /\ kernel_exists \in BOOLEAN
    /\ section_size = NotSet
    /\ nm_returncode = -1
    /\ nm_listing = <<>>
    /\ filtered = <<>>
    /\ function_symbols = <<>>
    /\ map_file \in {NoMap, StaleMap}
    /\ size = -1
    /\ calls = <<>>
    /\ sym_file = "absent"
    /\ kernel = Untouched
    /\ exit_code = -1

Next ==
    \/ ParseArguments
    \/ CheckKernel
    \/ ExtractSymbolTable
    \/ SizeGuard
    \/ OnlyKeepDebug
    \/ StripDebug
    \/ UpdateSection
    \/ AddGnuDebuglink

Spec == Init /\ [][Next]_vars

\* The symbol-table pass alone, on longer listings: an existing kernel and a
\* section of 4096 bytes, up to the end of extract_symbol_table.
ExtractLongTable == ExtractFrom(MaxLines)

TableInit ==
    /\ Init
    /\ ParseArgs(argv).status = "parsed"
    /\ ParseArgs(argv).section_size = IntValue(4096)
    /\ kernel_exists
    /\ map_file = NoMap

TableNext ==
    \/ ParseArguments
    \/ CheckKernel
    \/ ExtractLongTable

TableSpec == TableInit /\ [][TableNext]_vars

\* ------------------------------------------------- the reader of the table
\* A little-endian uint32 at position at of a byte sequence.
U32(b, at) == b[at] + 256 * b[at + 1] + 65536 * b[at + 2] + 16777216 * b[at + 3]

\* What the reader reports for an entry that does not follow the layout.
Malformed == <<-1, <<>>>>

\* n entries from position at: uint32 entry_size, uint32 address, the name of
\* entry_size - 9 bytes, one 0x00 byte.
RECURSIVE DecodeEntries(_, _, _)
DecodeEntries(blob, at, n) ==
    IF n = 0 THEN <<>>
    ELSE IF at + 7 > Len(blob) THEN <<Malformed>>
    ELSE LET entry_size == U32(blob, at)
             last == at + entry_size - 1
         IN  IF entry_size < 9 \/ last > Len(blob) THEN <<Malformed>>
             ELSE IF blob[last] # NUL THEN <<Malformed>>
             ELSE <<<<U32(blob, at + 4), Utf8Decode(SubSeq(blob, at + 8, last - 1))>>>>
                  \o DecodeEntries(blob, last + 1, n - 1)

\* The documented layout: uint32 entry_count, then the entries.
DecodeBlob(blob) ==
    IF Len(blob) < 4 THEN <<Malformed>> ELSE DecodeEntries(blob, 5, U32(blob, 1))

\* ------------------------------------------------------------------ claims
\* The objcopy calls of generate_binary_files, in the order of the source.
PatchOrder == <<"only-keep-debug", "strip-debug", "update-section", "add-gnu-debuglink">>

\* The run has written the map file.
MapWritten == map_file.exists /\ map_file # StaleMap

\* Number of objcopy calls that have succeeded.
Succeeded ==
    (IF sym_file = "written" THEN 1 ELSE 0) + (IF kernel.stripped THEN 1 ELSE 0)
    + (IF kernel.patched THEN 1 ELSE 0) + (IF kernel.linked THEN 1 ELSE 0)

\* C1: once the size S of the map file has been compared with an integer
\* section_size B, the run has aborted with no objcopy call, no .sym file
\* and an untouched kernel exactly when S > B (with S <= B, S = B included,
\* it goes on to the calls), and an objcopy call is only ever made after the
\* comparison found S <= B.
C1_CapacityGate ==
    /\ (size # -1 /\ section_size.type = "int") =>
        /\ size = Len(map_file.data)
        /\ (/\ pc = "exit" /\ exit_code = 1 /\ calls = <<>>
            /\ sym_file = "absent" /\ kernel = Untouched)
            <=> size > section_size.value
        /\ size <= section_size.value =>
            pc # "guard" /\ (pc = "objcopy1" \/ calls # <<>>)
    /\ calls # <<>> =>
        size # -1 /\ section_size.type = "int" /\ size <= section_size.value

\* A table that fills the section exactly has reached the objcopy calls.
C1_Witness == section_size = IntValue(size) /\ calls # <<>>

\* C2: the objcopy calls made so far are a prefix of the fixed order; call k is
\* made only when calls 1..k-1 have succeeded; only the last call made can have
\* failed, and then the run has ended; no step undoes the effect of a call.
C2_PatchOrder ==
    /\ [](/\ Len(calls) <= 4
          /\ calls = SubSeq(PatchOrder, 1, Len(calls))
          /\ Succeeded \in {Len(calls) - 1, Len(calls)}
          /\ Succeeded < Len(calls) => pc = "exit" /\ exit_code = 1
          /\ sym_file = "written" <=> Succeeded >= 1
          /\ kernel.stripped <=> Succeeded >= 2
          /\ kernel.patched <=> Succeeded >= 3
          /\ kernel.linked <=> Succeeded >= 4)
    /\ [][/\ sym_file = "written" => sym_file' = "written"
          /\ kernel.stripped => kernel'.stripped
          /\ kernel.patched => kernel'.patched
          /\ Len(calls') \in {Len(calls), Len(calls) + 1}
          /\ Succeeded < Len(calls) => calls' = calls]_vars

\* The third call has failed: the kernel is left stripped and not patched.
C2_Witness ==
    /\ pc = "exit" /\ calls = SubSeq(PatchOrder, 1, 3)
    /\ sym_file = "written" /\ kernel.stripped /\ ~kernel.patched /\ ~kernel.linked

\* C3: in the written map file the header counts the entries written, and the
\* entry_size field of every entry is len(utf8(name)) + 1 + 8.
C3_SizeInvariant ==
    MapWritten =>
        LET blob == map_file.data
            bytes(i) == 4 + 4 + Len(Utf8Encode(function_symbols[i][2])) + 1
            start[i \in 1..(Len(function_symbols) + 1)] ==
                IF i = 1 THEN 5 ELSE start[i - 1] + bytes(i - 1)
        IN  /\ U32(blob, 1) = Len(function_symbols)
            /\ start[Len(function_symbols) + 1] = Len(blob) + 1
            /\ \A i \in 1..Len(function_symbols) :
                U32(blob, start[i]) = Len(Utf8Encode(function_symbols[i][2])) + 1 + 8

\* C4: reading the written map file by the documented layout gives back the
\* (address, name) pairs of the table, in order.
C4_RoundTrip ==
    MapWritten =>
        DecodeBlob(map_file.data) =
            [i \in 1..Len(function_symbols) |->
                <<ParseHex(function_symbols[i][1]), function_symbols[i][2]>>]

\* C5, as claimed: a run has exit code 0 only with the map written and the
\* four calls made in order and successful, and a run that has ended has code
\* 0 exactly when the kernel exists, nm succeeds with a non-empty dump, the map
\* is written with S <= B and every objcopy call succeeds.
C5_ExitZeroOnlyAfterPatch ==
    /\ exit_code = 0 =>
        /\ MapWritten /\ map_file.data = EncodeTable(function_symbols)
        /\ calls = PatchOrder /\ Succeeded = 4
    /\ pc = "exit" =>
        (exit_code = 0 <=>
            /\ kernel_exists
            /\ nm_returncode = 0 /\ nm_listing # <<>>
            /\ MapWritten
            /\ section_size.type = "int" /\ Len(map_file.data) <= section_size.value
            /\ Succeeded = Len(calls))

\* C5, amended: every run ends (each step moves the run forward through its
\* nine positions and a run that has not ended can take a step). A run whose
\* arguments parse ends with code 0 or 1: 0 only with the map written and the
\* four calls made in order and successful, 0 whenever the kernel exists, nm
\* succeeds with a non-empty dump, the map is written with S <= B for an
\* integer B and every objcopy call succeeds, and 1 otherwise. A run whose
\* arguments do not parse has done nothing and ends with 0 when argparse
\* prints the help and with 2 on a usage error.
C5_ExitStatus ==
    /\ [](/\ pc # "exit" <=> exit_code = -1
          /\ pc # "exit" => ENABLED Next
          /\ exit_code \in {-1, 0, 1, 2}
          /\ (pc = "exit" /\ ParseArgs(argv).status = "parsed") =>
                /\ exit_code \in {0, 1}
                /\ exit_code = 0 =>
                    /\ MapWritten /\ map_file.data = EncodeTable(function_symbols)
                    /\ calls = PatchOrder /\ Succeeded = 4
                /\ exit_code = 0 <=>
                    /\ kernel_exists
                    /\ nm_returncode = 0 /\ nm_listing # <<>>
                    /\ MapWritten
                    /\ section_size.type = "int"
                    /\ Len(map_file.data) <= section_size.value
                    /\ Succeeded = Len(calls)
          /\ (pc = "exit" /\ ParseArgs(argv).status # "parsed") =>
                /\ exit_code = IF ParseArgs(argv).status = "help" THEN 0 ELSE 2
                /\ exit_code = 0 => \E i \in 1..Len(argv) : IsOption(argv[i])
                /\ section_size = NotSet
                /\ nm_returncode = -1 /\ map_file \in {NoMap, StaleMap}
                /\ calls = <<>> /\ sym_file = "absent" /\ kernel = Untouched)
    /\ [][LET Position(p) ==
                CASE p = "args" -> 0 [] p = "main" -> 1 [] p = "extract" -> 2
                  [] p = "guard" -> 3 [] p = "objcopy1" -> 4 [] p = "objcopy2" -> 5
                  [] p = "objcopy3" -> 6 [] p = "objcopy4" -> 7 [] p = "exit" -> 8
          IN  Position(pc') > Position(pc)]_vars

\* A run has ended with exit code 0.
C5_Witness == pc = "exit" /\ exit_code = 0 /\ kernel.linked

\* C6: for a listing that nm has written as text, the filtered sequence is,
\* in the order of the listing, exactly the lines whose type is "t" or "T" or
\* whose name is a sentinel, each reduced to its address and its name.
C6_FilterSelection ==
    (nm_returncode = 0 /\ ~DecodeRaises(Utf8Decode(NmOutput(nm_listing)))) =>
        LET Survives(line) ==
                \/ line[2] = <<116>> \/ line[2] = <<84>>
                \/ line[3] = KernelCodeStart \/ line[3] = KernelCodeEnd
            kept == SelectSeq(nm_listing, Survives)
        IN  filtered = [i \in 1..Len(kept) |-> <<kept[i][1], kept[i][3]>>]

\* A listing with a data line that is dropped, a sentinel kept by its name
\* alone and a function kept by its type alone.
C6_Witness ==
    /\ pc = "guard"
    /\ \E i \in 1..Len(nm_listing) :
        nm_listing[i][2] = <<68>> /\ nm_listing[i][3] \notin Sentinels
    /\ \E i \in 1..Len(nm_listing) :
        nm_listing[i][2] = <<68>> /\ nm_listing[i][3] \in Sentinels
    /\ \E i \in 1..Len(nm_listing) :
        nm_listing[i][2] = <<116>> /\ nm_listing[i][3] \notin Sentinels
    /\ Len(filtered) = Len(nm_listing) - 1

\* C7, as claimed: for a listing with both sentinels the table holds both
\* sentinels and every line of type "t" or "T" of the listing.
C7_AllSelectedKept ==
    LET names == {nm_listing[i][3] : i \in 1..Len(nm_listing)}
        table == {function_symbols[i] : i \in 1..Len(function_symbols)}
    IN  (pc = "guard" /\ Sentinels \subseteq names) =>
            /\ Sentinels \subseteq {e[2] : e \in table}
            /\ \A i \in 1..Len(nm_listing) :
                nm_listing[i][2] \in TextTypes =>
                    <<nm_listing[i][1], nm_listing[i][3]>> \in table

\* C7, amended: for a listing with both sentinels the table holds the selected
\* lines of the listing (type "t" or "T", or a sentinel name) except the first
\* selected line: one entry less, and each of the others as often as selected.
C7_AllButFirstKept ==
    LET names == {nm_listing[i][3] : i \in 1..Len(nm_listing)}
        Survives(line) == line[2] \in TextTypes \/ line[3] \in Sentinels
        kept == SelectSeq(nm_listing, Survives)
        rest == [i \in 1..(Len(kept) - 1) |-> <<kept[i + 1][1], kept[i + 1][3]>>]
        Count(seq, e) == Cardinality({i \in 1..Len(seq) : seq[i] = e})
    IN  (pc = "guard" /\ Sentinels \subseteq names) =>
            /\ Len(function_symbols) = Len(kept) - 1
            /\ \A i \in 1..Len(rest) :
                Count(function_symbols, rest[i]) = Count(rest, rest[i])

\* The first selected line was the start sentinel and the table lacks it.
C7_Witness ==
    /\ pc = "guard"
    /\ Len(filtered) = 4
    /\ filtered[1][2] = KernelCodeStart
    /\ \E i \in 2..4 : filtered[i][2] = KernelCodeEnd
    /\ \A i \in 1..Len(function_symbols) : function_symbols[i][2] # KernelCodeStart

\* C8: for a listing with the start sentinel, "_kernel_code_start" is the
\* first entry of the table.
C8_StartSentinelFirst ==
    (pc = "guard" /\ \E i \in 1..Len(nm_listing) : nm_listing[i][3] = KernelCodeStart)
        => function_symbols[1][2] = KernelCodeStart

\* C9: a step in which nm fails or prints nothing ends the run with code 1
\* and leaves the map file as it was, with no objcopy call made, no .sym file
\* and the kernel untouched.
C9_ExtractionFailure ==
    [][(nm_returncode' = 1 \/ (nm_returncode' = 0 /\ nm_listing' = <<>>)) =>
            /\ pc' = "exit" /\ exit_code' = 1
            /\ map_file' = map_file /\ map_file' \in {NoMap, StaleMap}
            /\ calls' = <<>> /\ sym_file' = "absent" /\ kernel' = Untouched]_vars

\* nm printed nothing and the map file of an earlier run is still there.
C9_Witness ==
    pc = "exit" /\ nm_returncode = 0 /\ nm_listing = <<>> /\ map_file = StaleMap

\* C10: a table is only built from a filtered sequence F of n >= 2 entries and
\* has n - 1 entries: <<F[2]>> for n = 2 and F[3], F[2], F[4], ..., F[n] for
\* n >= 3.
C10_Reorder ==
    pc = "guard" =>
        LET F == filtered
            n == Len(filtered)
        IN  /\ n >= 2
            /\ Len(function_symbols) = n - 1
            /\ n = 2 => function_symbols = <<F[2]>>
            /\ n >= 3 => function_symbols = <<F[3], F[2]>> \o SubSeq(F, 4, n)

\* The example of four entries: A, B, C, D gives C, B, D.
C10_Witness ==
    /\ pc = "guard"
    /\ Len(filtered) = 4
    /\ function_symbols = <<filtered[3], filtered[2], filtered[4]>>

====
